---- MODULE Spec2Model ----
(***************************************************************************)
(* OSC-CV bridge firmware (firmware/src/main.cpp).                         *)
(*                                                                         *)
(* Two execution contexts share memory without locks:                      *)
(*   core 0  usb_loop()            : reads command bytes, writes targets,  *)
(*                                   takes input snapshots and sends them  *)
(*   core 1  ProcessMainSample()   : applies targets to the outputs and    *)
(*                                   every INPUT_REPORT_INTERVAL ticks     *)
(*                                   publishes the latched inputs          *)
(* ProcessMainSample is called by ExtendedCard::ProcessSample              *)
(* (include/ComputerCardExtensions.h), which holds it back while the       *)
(* switch is down and resets into the bootloader after a long hold.        *)
(* Every access to a shared (volatile) variable is one step of the model;  *)
(* steps that touch only locals or the transport are merged with the       *)
(* neighbouring step.                                                      *)
(***************************************************************************)
EXTENDS Integers, Sequences, FiniteSets, TLC

(***************************************************************************)
(* Program constants                                                       *)
(***************************************************************************)
SYNC_HOST_TO_DEVICE == 192
SYNC_DEVICE_TO_HOST == 193
OUTPUT_PACKET_SIZE == 10
INPUT_PACKET_SIZE == 16
INPUT_REPORT_INTERVAL == 48
\* ComputerCardExtensions.h 124: samples of switch held down before Abort()
BOOT_HOLD_SAMPLES == 96000
\* ComputerCardExtensions.h 121-122: LED thresholds of the hold progress
BOOT_HOLD_MID == 32000
BOOT_HOLD_TOP == 64000
\* LedOn(i) is full brightness (main.cpp 113: LED brightness is 0..4095)
LED_ON == 4095
\* ComputerCardExtensions.h 101: samples per half-beat of the startup pattern
SAMPLES_PER_HALF_BEAT == 12000
\* ComputerCardExtensions.h 142: half-beats of a startup pattern
PATTERN_LENGTH == 12
\* enum Switch of the card library, as ComputerCardExtensions.h 111 uses it
Down == 0

(***************************************************************************)
(* Bounds of the model                                                     *)
(***************************************************************************)
\* publications the sampler makes while the history is recorded
MaxPub == 3
\* ticks between two publications in the interleaved specifications
ShortInterval == 2
\* command frames the host sends in a recorded run
MaxCmd == 2
\* sampler ticks counted in a run that records them
MaxTick == 100
\* calls of ProcessSample followed from power-on: the startup pattern and the
\* first main samples after it
MaxCall == 144003
\* samples for which the switch is held down where the hold is not the subject
MaxHold == 2
\* samples per half-beat of the builds that interleave the startup pattern
\* with the I/O loop
ShortHalfBeat == 2

(***************************************************************************)
(* Integer conversions of the C code                                       *)
(***************************************************************************)
\* (uint8_t)x
U8(x) == x % 256

\* (int16_t)x for x in 0..65535
I16(x) == IF x % 65536 >= 32768 THEN (x % 65536) - 65536 ELSE x % 65536

\* the two bytes taken in the wrong order
ReadI16BigEndian(lo, hi) == I16(hi + 256 * lo)

\* (int16_t)(lo | (hi << 8))
ReadI16(lo, hi) == I16(lo + 256 * hi)

\* a low byte that loses bit 7
LoByteSevenBits(v) == v % 128

\* (uint8_t)(v & 0xFF)
LoByte(v) == v % 256

\* (uint8_t)((v >> 8) & 0xFF), arithmetic shift of the promoted int
HiByte(v) == (v \div 256) % 256

\* f & 0x01 and (f & 0x02) != 0
Bit0(f) == f % 2
Bit1(f) == (f \div 2) % 2

(***************************************************************************)
(* State                                                                   *)
(***************************************************************************)
VARIABLES
  \* ---- shared between the cores (main.cpp 34-42)
  target,         \* int16_t target[4]
  target_flags,   \* uint8_t target_flags
  input_cv,       \* int16_t input_cv[2]
  input_audio,    \* int16_t input_audio[2]
  input_knobs,    \* int16_t input_knobs[3]
  input_flags,    \* uint8_t input_flags
  inputs_ready,   \* bool inputs_ready
  \* ---- core 0: usb_loop
  pc0,            \* position of usb_loop
  pktBuf,         \* uint8_t pktBuf[OUTPUT_PACKET_SIZE]
  pktPos,         \* uint8_t pktPos
  snap,           \* the locals flags, cv0, cv1, audio0, audio1, knob0..2 that
                  \* are in scope and assigned
  \* ---- core 1: ProcessMainSample
  pc1,            \* position of ProcessMainSample
  reportCounter,  \* int reportCounter
  f,              \* the local uint8_t f
  interval,       \* the build's INPUT_REPORT_INTERVAL
  sample,         \* the inputs latched for the current tick
  out,            \* the hardware outputs last written
  led,            \* LED brightness last written
  \* ---- core 1: ExtendedCard (ComputerCardExtensions.h 96-105)
  switchDownCount,          \* int switchDownCount
  initialization_complete,  \* bool initialization_complete
  position,                 \* int position
  sample_counter,           \* int sample_counter
  halfBeat,                 \* the build's SAMPLES_PER_HALF_BEAT
  \* ---- transport
  inbound,        \* bytes the host has sent and usb_loop has not read yet
  sent,           \* the 16 bytes most recently written with putchar_raw (recorded)
  \* ---- history (not program state)
  rec,            \* the histories recorded in this run: "cmd", "pub", "chk",
                  \* "tx", "tick", "call"
  calls,          \* calls of ExtendedCard::ProcessSample so far (recorded)
  downCalls,      \* those of them on which the switch read Down (recorded)
  downRun,        \* the latest calls in a row on which it read Down (recorded)
  ticks,          \* calls of ProcessMainSample that have returned (recorded)
  rx,             \* every byte usb_loop has read, oldest first (recorded)
  since,          \* bytes read since (and with) the latest sync marker, <= 10
  cmds,           \* the command frames completed so far
  targetOf,       \* per target field: index in cmds of the frame that wrote it
  outOf,          \* per target field: index in cmds of the frame last applied
  pubSeq,         \* publications begun by the sampler
  inputOf,        \* per input field: the publication that wrote it
  snapOf,         \* per snapshot local: the publication it was read from
  nSent,          \* telemetry frames written so far
  chkSeq,         \* publications begun when inputs_ready was last tested
  took            \* for the snapshot being taken: the publications completed
                  \* when it was found ready, and how many of them were made
                  \* in full since the test before

shared == <<target, target_flags, input_cv, input_audio, input_knobs,
            input_flags, inputs_ready>>
io == <<pc0, pktBuf, pktPos, snap>>
smp == <<pc1, reportCounter, f, interval, sample, out, led>>
wire == <<inbound, sent>>
hist == <<rec, rx, since, cmds, targetOf, outOf, pubSeq, inputOf, snapOf, nSent,
          chkSeq, took>>
card == <<switchDownCount, initialization_complete, position, sample_counter,
          halfBeat>>
cardHist == <<calls, downCalls, downRun>>
vars == <<shared, io, smp, card, wire, hist, cardHist, ticks>>

(***************************************************************************)
(* Values of the environment                                               *)
(***************************************************************************)

\* bytes a free-running host puts on the wire: the sync marker and one other
HostBytes == {SYNC_HOST_TO_DEVICE, 17}

\* native range of a channel
ChanMin == -2048
ChanMax == 2047

\* a command frame as the host encodes it: sync, flags, 4 x int16 little-endian
CmdFrame(fl, c) ==
  <<SYNC_HOST_TO_DEVICE, fl,
    LoByte(c[1]), HiByte(c[1]), LoByte(c[2]), HiByte(c[2]),
    LoByte(c[3]), HiByte(c[3]), LoByte(c[4]), HiByte(c[4])>>

\* inputs latched by the hardware layer for one tick
Scenes ==
  { [cv |-> <<100, -50>>, audio |-> <<0, 0>>, knobs |-> <<4095, 0, 2048>>,
     pulse1 |-> FALSE, pulse2 |-> TRUE, sw |-> 1],
    [cv |-> <<-2048, 2047>>, audio |-> <<-1, 255>>, knobs |-> <<0, 4095, 1>>,
     pulse1 |-> TRUE, pulse2 |-> FALSE, sw |-> 2] }

\* the inputs while nothing changes them
SteadyScene ==
  [cv |-> <<100, -50>>, audio |-> <<0, 0>>, knobs |-> <<4095, 0, 2048>>,
   pulse1 |-> FALSE, pulse2 |-> TRUE, sw |-> 1]

Fields == {"flags", "cv0", "cv1", "audio0", "audio1", "knob0", "knob1", "knob2"}
\* target[0..3] are fields 0..3 of the target set, target_flags is field 4
TargetFields == 0..4

\* no snapshot is being taken
NoTake == [ready |-> 0, whole |-> 0]

(***************************************************************************)
(* Initial state: main() has constructed the bridge and launched core 1;   *)
(* all globals hold their initialisers (main.cpp 34-42, 95, 159-160).      *)
(***************************************************************************)
InitProgram ==
  /\ target = [i \in 0..3 |-> 0]
  /\ target_flags = 0
  /\ input_cv = [i \in 0..1 |-> 0]
  /\ input_audio = [i \in 0..1 |-> 0]
  /\ input_knobs = [i \in 0..2 |-> 0]
  /\ input_flags = 0
  /\ inputs_ready = FALSE
  /\ pc0 = "read"
  /\ pktBuf = [i \in 0..(OUTPUT_PACKET_SIZE - 1) |-> 0]
  /\ pktPos = 0
  /\ snap = <<>>
  /\ pc1 = "out0"
  /\ reportCounter = 0
  /\ f = 0
  /\ sample = SteadyScene
  /\ out = [o \in {"audio1", "audio2", "cv1", "cv2", "pulse1", "pulse2"} |-> 0]
  /\ led = [i \in 0..5 |-> 0]
  /\ sent = <<>>

InitHistory ==
  /\ rx = <<>>
  /\ since = <<>>
  /\ cmds = <<>>
  /\ targetOf = [x \in TargetFields |-> 0]
  /\ outOf = [x \in TargetFields |-> 0]
  /\ pubSeq = 0
  /\ inputOf = [x \in Fields |-> 0]
  /\ snapOf = [x \in Fields |-> 0]
  /\ nSent = 0
  /\ chkSeq = 0
  /\ took = NoTake
  /\ ticks = 0
  /\ calls = 0
  /\ downCalls = 0
  /\ downRun = 0

\* the card once its startup pattern has been played and the switch released
\* (ComputerCardExtensions.h 145, 111)
InitStarted ==
  /\ switchDownCount = 0
  /\ initialization_complete = TRUE
  /\ position = PATTERN_LENGTH
  /\ sample_counter = 0
  /\ halfBeat = SAMPLES_PER_HALF_BEAT

\* the card as constructed (ComputerCardExtensions.h 98-105)
InitPowerOn ==
  /\ switchDownCount = 0
  /\ initialization_complete = FALSE
  /\ position = 0
  /\ sample_counter = 0

(***************************************************************************)
(* Core 0: usb_loop (main.cpp 158-230)                                     *)
(***************************************************************************)
\* the bytes since the latest sync marker, as the stream alone defines them
SinceAfter(s, b) ==
  IF b = SYNC_HOST_TO_DEVICE THEN <<b>>
  ELSE IF s # <<>> /\ Len(s) < OUTPUT_PACKET_SIZE THEN Append(s, b)
  ELSE <<>>

\* getchar_timeout_us(100) returns PICO_ERROR_TIMEOUT: straight to the send part
IOTimeout ==
  /\ pc0 = "read"
  /\ pc0' = "chk"
  /\ UNCHANGED <<shared, pktBuf, pktPos, snap, smp, wire, hist>>
  /\ UNCHANGED <<card, cardHist, ticks>>

\* a restart that drops the sync byte instead of keeping it as byte 0
IOResyncDropsMarker ==
  /\ pc0 = "read"
  /\ inbound # <<>>
  /\ LET b == U8(Head(inbound)) IN
       /\ pktPos > 0 /\ b = SYNC_HOST_TO_DEVICE
       /\ pktPos' = 0
       /\ pc0' = "read"
       /\ since' = SinceAfter(since, b)
  /\ rx' = IF "cmd" \in rec THEN Append(rx, U8(Head(inbound))) ELSE rx
  /\ inbound' = Tail(inbound)
  /\ UNCHANGED <<shared, pktBuf, snap, smp, sent>>
  /\ UNCHANGED <<rec, cmds, targetOf, outOf, pubSeq, inputOf, snapOf, nSent,
                 chkSeq, took>>
  /\ UNCHANGED <<card, cardHist, ticks>>

\* a sync byte while a packet is in progress is stored like any other byte
IOResyncStoresByte ==
  /\ pc0 = "read"
  /\ inbound # <<>>
  /\ LET b == U8(Head(inbound)) IN
       /\ pktPos > 0 /\ b = SYNC_HOST_TO_DEVICE
       /\ pktBuf' = [pktBuf EXCEPT ![pktPos] = b]
       /\ pktPos' = U8(pktPos + 1)
       /\ pc0' = IF pktPos' = OUTPUT_PACKET_SIZE THEN "tflags" ELSE "chk"
       /\ since' = SinceAfter(since, b)
       /\ cmds' = IF "cmd" \in rec /\ pktPos' = OUTPUT_PACKET_SIZE
                  THEN Append(cmds, [i \in 1..OUTPUT_PACKET_SIZE |-> pktBuf'[i - 1]])
                  ELSE cmds
  /\ rx' = IF "cmd" \in rec THEN Append(rx, U8(Head(inbound))) ELSE rx
  /\ inbound' = Tail(inbound)
  /\ UNCHANGED <<shared, snap, smp, sent>>
  /\ UNCHANGED <<rec, targetOf, outOf, pubSeq, inputOf, snapOf, nSent,
                 chkSeq, took>>
  /\ UNCHANGED <<card, cardHist, ticks>>

\* lines 169-173: a sync byte while a packet is in progress restarts it
IOResync ==
  /\ pc0 = "read"
  /\ inbound # <<>>
  /\ LET b == U8(Head(inbound)) IN
       /\ pktPos > 0 /\ b = SYNC_HOST_TO_DEVICE
       /\ pktBuf' = [pktBuf EXCEPT ![0] = b]
       /\ pktPos' = 1
       /\ pc0' = "read"
       /\ since' = SinceAfter(since, b)
  /\ rx' = IF "cmd" \in rec THEN Append(rx, U8(Head(inbound))) ELSE rx
  /\ inbound' = Tail(inbound)
  /\ UNCHANGED <<shared, snap, smp, sent>>
  /\ UNCHANGED <<rec, cmds, targetOf, outOf, pubSeq, inputOf, snapOf, nSent,
                 chkSeq, took>>
  /\ UNCHANGED <<card, cardHist, ticks>>

\* lines 176-178: any other byte while waiting for the sync byte is dropped
IODiscard ==
  /\ pc0 = "read"
  /\ inbound # <<>>
  /\ LET b == U8(Head(inbound)) IN
       /\ ~(pktPos > 0 /\ b = SYNC_HOST_TO_DEVICE)
       /\ pktPos = 0 /\ b # SYNC_HOST_TO_DEVICE
       /\ pc0' = "read"
       /\ since' = SinceAfter(since, b)
  /\ rx' = IF "cmd" \in rec THEN Append(rx, U8(Head(inbound))) ELSE rx
  /\ inbound' = Tail(inbound)
  /\ UNCHANGED <<shared, pktBuf, pktPos, snap, smp, sent>>
  /\ UNCHANGED <<rec, cmds, targetOf, outOf, pubSeq, inputOf, snapOf, nSent,
                 chkSeq, took>>
  /\ UNCHANGED <<card, cardHist, ticks>>

\* a store that passes the flags byte on to target_flags as it arrives
IOStoreWritesThrough ==
  /\ pc0 = "read"
  /\ inbound # <<>>
  /\ LET b == U8(Head(inbound)) IN
       /\ ~(pktPos > 0 /\ b = SYNC_HOST_TO_DEVICE)
       /\ ~(pktPos = 0 /\ b # SYNC_HOST_TO_DEVICE)
       /\ pktBuf' = [pktBuf EXCEPT ![pktPos] = b]
       /\ pktPos' = U8(pktPos + 1)
       /\ target_flags' = IF pktPos = 1 THEN b ELSE target_flags
       /\ pc0' = IF pktPos' = OUTPUT_PACKET_SIZE THEN "tflags" ELSE "chk"
       /\ since' = SinceAfter(since, b)
       /\ cmds' = IF "cmd" \in rec /\ pktPos' = OUTPUT_PACKET_SIZE
                  THEN Append(cmds, [i \in 1..OUTPUT_PACKET_SIZE |-> pktBuf'[i - 1]])
                  ELSE cmds
  /\ rx' = IF "cmd" \in rec THEN Append(rx, U8(Head(inbound))) ELSE rx
  /\ inbound' = Tail(inbound)
  /\ UNCHANGED <<target, input_cv, input_audio, input_knobs, input_flags,
                 inputs_ready, snap, smp, sent>>
  /\ UNCHANGED <<rec, targetOf, outOf, pubSeq, inputOf, snapOf, nSent,
                 chkSeq, took>>
  /\ UNCHANGED <<card, cardHist, ticks>>

\* lines 180-182: the byte is stored; a full buffer goes on to the targets
IOStore ==
  /\ pc0 = "read"
  /\ inbound # <<>>
  /\ LET b == U8(Head(inbound)) IN
       /\ ~(pktPos > 0 /\ b = SYNC_HOST_TO_DEVICE)
       /\ ~(pktPos = 0 /\ b # SYNC_HOST_TO_DEVICE)
       /\ pktBuf' = [pktBuf EXCEPT ![pktPos] = b]
       /\ pktPos' = U8(pktPos + 1)
       /\ pc0' = IF pktPos' = OUTPUT_PACKET_SIZE THEN "tflags" ELSE "chk"
       /\ since' = SinceAfter(since, b)
       /\ cmds' = IF "cmd" \in rec /\ pktPos' = OUTPUT_PACKET_SIZE
                  THEN Append(cmds, [i \in 1..OUTPUT_PACKET_SIZE |-> pktBuf'[i - 1]])
                  ELSE cmds
  /\ rx' = IF "cmd" \in rec THEN Append(rx, U8(Head(inbound))) ELSE rx
  /\ inbound' = Tail(inbound)
  /\ UNCHANGED <<shared, snap, smp, sent>>
  /\ UNCHANGED <<rec, targetOf, outOf, pubSeq, inputOf, snapOf, nSent,
                 chkSeq, took>>
  /\ UNCHANGED <<card, cardHist, ticks>>

\* line 184: target_flags = pktBuf[1]
IOSetFlags ==
  /\ pc0 = "tflags"
  /\ target_flags' = pktBuf[1]
  /\ targetOf' = [targetOf EXCEPT ![4] = Len(cmds)]
  /\ pc0' = "t0"
  /\ UNCHANGED <<target, input_cv, input_audio, input_knobs, input_flags,
                 inputs_ready, pktBuf, pktPos, snap, smp, wire>>
  /\ UNCHANGED <<rec, rx, since, cmds, outOf, pubSeq, inputOf, snapOf, nSent,
                 chkSeq, took>>
  /\ UNCHANGED <<card, cardHist, ticks>>

\* lines 185-189: target[i] = (int16_t)(pktBuf[2i+2] | (pktBuf[2i+3] << 8));
\* the last one is followed by pktPos = 0
\* a copy that goes on to the send part after two channels
TargetPcLeavesEarly(i) == <<"t0", "t1", "chk", "t3", "chk">>[i + 1]

TargetPc(i) == <<"t0", "t1", "t2", "t3", "chk">>[i + 1]

\* a copy that takes each channel one byte early
IOSetTargetShifted(i) ==
  /\ pc0 = TargetPc(i)
  /\ target' = [target EXCEPT ![i] = ReadI16(pktBuf[2 * i + 1], pktBuf[2 * i + 2])]
  /\ targetOf' = [targetOf EXCEPT ![i] = Len(cmds)]
  /\ pktPos' = IF i = 3 THEN 0 ELSE pktPos
  /\ pc0' = TargetPc(i + 1)
  /\ UNCHANGED <<target_flags, input_cv, input_audio, input_knobs, input_flags,
                 inputs_ready, pktBuf, snap, smp, wire>>
  /\ UNCHANGED <<rec, rx, since, cmds, outOf, pubSeq, inputOf, snapOf, nSent,
                 chkSeq, took>>
  /\ UNCHANGED <<card, cardHist, ticks>>

\* a copy that leaves the cursor at the end of the buffer
IOSetTargetKeepsCursor(i) ==
  /\ pc0 = TargetPc(i)
  /\ target' = [target EXCEPT ![i] = ReadI16(pktBuf[2 * i + 2], pktBuf[2 * i + 3])]
  /\ targetOf' = [targetOf EXCEPT ![i] = Len(cmds)]
  /\ pc0' = TargetPc(i + 1)
  /\ UNCHANGED <<target_flags, input_cv, input_audio, input_knobs, input_flags,
                 inputs_ready, pktBuf, pktPos, snap, smp, wire>>
  /\ UNCHANGED <<rec, rx, since, cmds, outOf, pubSeq, inputOf, snapOf, nSent,
                 chkSeq, took>>
  /\ UNCHANGED <<card, cardHist, ticks>>

IOSetTarget(i) ==
  /\ pc0 = TargetPc(i)
  /\ target' = [target EXCEPT ![i] = ReadI16(pktBuf[2 * i + 2], pktBuf[2 * i + 3])]
  /\ targetOf' = [targetOf EXCEPT ![i] = Len(cmds)]
  /\ pktPos' = IF i = 3 THEN 0 ELSE pktPos
  /\ pc0' = TargetPc(i + 1)
  /\ UNCHANGED <<target_flags, input_cv, input_audio, input_knobs, input_flags,
                 inputs_ready, pktBuf, snap, smp, wire>>
  /\ UNCHANGED <<rec, rx, since, cmds, outOf, pubSeq, inputOf, snapOf, nSent,
                 chkSeq, took>>
  /\ UNCHANGED <<card, cardHist, ticks>>

\* line 194: if (inputs_ready)
NReady == IF pc1 \in {"pcv0", "pcv1", "paudio0", "paudio1", "pknob0", "pknob1",
                      "pknob2", "pflags", "ready"}
          THEN pubSeq - 1 ELSE pubSeq

\* a test of ready that goes straight to the reads, without clearing
IOCheckWithoutClear ==
  /\ pc0 = "chk"
  /\ pc0' = IF inputs_ready THEN "rflags" ELSE "read"
  /\ UNCHANGED <<shared, pktBuf, pktPos, snap, smp, wire, hist>>
  /\ UNCHANGED <<card, cardHist, ticks>>

IOCheck ==
  /\ pc0 = "chk"
  /\ pc0' = IF inputs_ready THEN "clear" ELSE "read"
  /\ chkSeq' = IF "chk" \in rec THEN pubSeq ELSE chkSeq
  /\ took' = IF "chk" \in rec /\ inputs_ready
             THEN [ready |-> NReady, whole |-> NReady - chkSeq]
             ELSE took
  /\ UNCHANGED <<shared, pktBuf, pktPos, snap, smp, wire>>
  /\ UNCHANGED <<rec, rx, since, cmds, targetOf, outOf, pubSeq, inputOf, snapOf,
                 nSent>>
  /\ UNCHANGED <<card, cardHist, ticks>>

\* ready left as it is
IOClearForgotten ==
  /\ pc0 = "clear"
  /\ pc0' = "rflags"
  /\ UNCHANGED <<shared, pktBuf, pktPos, snap, smp, wire, hist>>
  /\ UNCHANGED <<card, cardHist, ticks>>

\* line 195: inputs_ready = false
IOClear ==
  /\ pc0 = "clear"
  /\ inputs_ready' = FALSE
  /\ pc0' = "rflags"
  /\ UNCHANGED <<target, target_flags, input_cv, input_audio, input_knobs,
                 input_flags, pktBuf, pktPos, snap, smp, wire, hist>>
  /\ UNCHANGED <<card, cardHist, ticks>>

\* lines 198-205: the eight volatile reads, in this order
TakeOrder == <<"flags", "cv0", "cv1", "audio0", "audio1", "knob0", "knob1", "knob2">>
TakePc(k) == <<"rflags", "rcv0", "rcv1", "raudio0", "raudio1", "rknob0", "rknob1",
               "rknob2", "send">>[k]

InputVal(x) ==
  CASE x = "flags" -> input_flags
    [] x = "cv0" -> input_cv[0]
    [] x = "cv1" -> input_cv[1]
    [] x = "audio0" -> input_audio[0]
    [] x = "audio1" -> input_audio[1]
    [] x = "knob0" -> input_knobs[0]
    [] x = "knob1" -> input_knobs[1]
    [] x = "knob2" -> input_knobs[2]

IOTake(k) ==
  /\ pc0 = TakePc(k)
  /\ snap' = snap @@ (TakeOrder[k] :> InputVal(TakeOrder[k]))
  /\ snapOf' = [snapOf EXCEPT ![TakeOrder[k]] = inputOf[TakeOrder[k]]]
  /\ pc0' = TakePc(k + 1)
  /\ UNCHANGED <<shared, pktBuf, pktPos, smp, wire>>
  /\ UNCHANGED <<rec, rx, since, cmds, targetOf, outOf, pubSeq, inputOf, nSent,
                 chkSeq, took>>
  /\ UNCHANGED <<card, cardHist, ticks>>

\* an encoder that writes each reading high byte first
EncodeHighByteFirst(s) ==
  <<SYNC_DEVICE_TO_HOST, s["flags"],
    HiByte(s["cv0"]), LoByte(s["cv0"]), HiByte(s["cv1"]), LoByte(s["cv1"]),
    HiByte(s["audio0"]), LoByte(s["audio0"]), HiByte(s["audio1"]), LoByte(s["audio1"]),
    HiByte(s["knob0"]), LoByte(s["knob0"]), HiByte(s["knob1"]), LoByte(s["knob1"]),
    HiByte(s["knob2"]), LoByte(s["knob2"])>>

\* lines 207-223: outPkt
Encode(s) ==
  <<SYNC_DEVICE_TO_HOST, s["flags"],
    LoByte(s["cv0"]), HiByte(s["cv0"]), LoByte(s["cv1"]), HiByte(s["cv1"]),
    LoByte(s["audio0"]), HiByte(s["audio0"]), LoByte(s["audio1"]), HiByte(s["audio1"]),
    LoByte(s["knob0"]), HiByte(s["knob0"]), LoByte(s["knob1"]), HiByte(s["knob1"]),
    LoByte(s["knob2"]), HiByte(s["knob2"])>>

\* lines 207-228: encode the locals and write the 16 bytes; the locals then
\* go out of scope
\* ready cleared once the frame is out, not before the reads
IOSendThenClear ==
  /\ pc0 = "send"
  /\ sent' = IF "tx" \in rec THEN Encode(snap) ELSE sent
  /\ nSent' = IF "pub" \in rec THEN nSent + 1 ELSE nSent
  /\ snap' = <<>>
  /\ snapOf' = [x \in Fields |-> 0]
  /\ took' = NoTake
  /\ inputs_ready' = FALSE
  /\ pc0' = "read"
  /\ UNCHANGED <<target, target_flags, input_cv, input_audio, input_knobs,
                 input_flags, pktBuf, pktPos, smp, inbound>>
  /\ UNCHANGED <<rec, rx, since, cmds, targetOf, outOf, pubSeq, inputOf, chkSeq>>
  /\ UNCHANGED <<card, cardHist, ticks>>

IOSend ==
  /\ pc0 = "send"
  /\ sent' = IF "tx" \in rec THEN Encode(snap) ELSE sent
  /\ nSent' = IF "pub" \in rec THEN nSent + 1 ELSE nSent
  /\ snap' = <<>>
  /\ snapOf' = [x \in Fields |-> 0]
  /\ took' = NoTake
  /\ pc0' = "read"
  /\ UNCHANGED <<shared, pktBuf, pktPos, smp, inbound>>
  /\ UNCHANGED <<rec, rx, since, cmds, targetOf, outOf, pubSeq, inputOf, chkSeq>>
  /\ UNCHANGED <<card, cardHist, ticks>>

\* the loop over outPkt can pass over outPkt[8]
PutPcSkipsByte(i) ==
  <<"send", "put1", "put2", "put3", "put4", "put5", "put6", "put7", "put9",
    "put9", "put10", "put11", "put12", "put13", "put14", "put15", "read">>[i + 1]

\* lines 225-227: for (i = 0; i < INPUT_PACKET_SIZE; i++), then the next iteration
PutPc(i) ==
  <<"send", "put1", "put2", "put3", "put4", "put5", "put6", "put7", "put8",
    "put9", "put10", "put11", "put12", "put13", "put14", "put15", "read">>[i + 1]

\* line 226: putchar_raw(outPkt[i]), one byte per step; outPkt is built from
\* the locals of the snapshot (lines 207-223), which no one else writes. When
\* recorded, sent holds the bytes written since the first byte of the frame
\* begun last.
IOPut(i) ==
  /\ pc0 = PutPc(i)
  /\ sent' = IF "tx" \notin rec THEN sent
             ELSE IF i = 0 THEN <<Encode(snap)[1]>>
             ELSE Append(sent, Encode(snap)[i + 1])
  /\ pc0' = PutPc(i + 1)
  /\ IF i = INPUT_PACKET_SIZE - 1
     THEN /\ nSent' = IF "pub" \in rec THEN nSent + 1 ELSE nSent
          /\ snap' = <<>>
          /\ snapOf' = [x \in Fields |-> 0]
          /\ took' = NoTake
     ELSE UNCHANGED <<nSent, snap, snapOf, took>>
  /\ UNCHANGED <<shared, pktBuf, pktPos, smp, inbound>>
  /\ UNCHANGED <<rec, rx, since, cmds, targetOf, outOf, pubSeq, inputOf, chkSeq>>
  /\ UNCHANGED <<card, cardHist, ticks>>

(***************************************************************************)
(* Core 1: OSCBridge::ProcessMainSample (main.cpp 102-137), one call per   *)
(* sample; the next call starts where the previous one returned.           *)
(***************************************************************************)
\* the audio and CV outputs exchanged
OutNameSwapped(i) == <<"cv1", "cv2", "audio1", "audio2">>[i + 1]

OutName(i) == <<"audio1", "audio2", "cv1", "cv2">>[i + 1]
OutPc(i) == <<"out0", "out1", "out2", "out3", "outf">>[i + 1]
LedPc(i) == <<"led0", "led1", "led2", "led3", "count">>[i + 1]

\* lines 104-107: AudioOut1(target[0]) .. CVOut2(target[3])
\* ExtendedCard::ProcessSample (ComputerCardExtensions.h 194-220) reaches
\* ProcessMainSample: the switch is not down and the startup pattern is over
\* the main sample is not held back by the startup pattern
CardRunsWhileStarting == sample.sw # Down

CardRuns == sample.sw # Down /\ initialization_complete

\* ComputerCardExtensions.h 111-129, 206: a sample with the switch down counts
\* the hold, shows its progress on the left LEDs and returns; at
\* BOOT_HOLD_SAMPLES it calls Abort(), Run() returns and RunWithBootSupport
\* resets the chip into the USB bootloader (line 229)
\* the hold aborts one sample late
CardHeldAbortsLate ==
  /\ pc1 = "out0"
  /\ sample.sw = Down
  /\ switchDownCount' = switchDownCount + 1
  /\ led' = [i \in 0..5 |->
              IF \/ i = 4
                 \/ i = 2 /\ switchDownCount' > BOOT_HOLD_MID
                 \/ i = 0 /\ switchDownCount' > BOOT_HOLD_TOP
              THEN LED_ON ELSE 0]
  /\ IF switchDownCount' > BOOT_HOLD_SAMPLES
     THEN pc1' = "boot" /\ pc0' = "boot"
     ELSE UNCHANGED <<pc0, pc1>>
  /\ calls' = IF "call" \in rec THEN calls + 1 ELSE calls
  /\ downCalls' = IF "call" \in rec THEN downCalls + 1 ELSE downCalls
  /\ downRun' = IF "hold" \in rec THEN downRun + 1 ELSE downRun
  /\ UNCHANGED <<shared, pktBuf, pktPos, snap, reportCounter, f, interval, sample,
                 out, initialization_complete, position, sample_counter, halfBeat,
                 wire, hist, ticks>>

CardHeld ==
  /\ pc1 = "out0"
  /\ sample.sw = Down
  /\ switchDownCount' = switchDownCount + 1
  /\ led' = [i \in 0..5 |->
              IF \/ i = 4
                 \/ i = 2 /\ switchDownCount' > BOOT_HOLD_MID
                 \/ i = 0 /\ switchDownCount' > BOOT_HOLD_TOP
              THEN LED_ON ELSE 0]
  /\ IF switchDownCount' >= BOOT_HOLD_SAMPLES
     THEN pc1' = "boot" /\ pc0' = "boot"
     ELSE UNCHANGED <<pc0, pc1>>
  /\ calls' = IF "call" \in rec THEN calls + 1 ELSE calls
  /\ downCalls' = IF "call" \in rec THEN downCalls + 1 ELSE downCalls
  /\ downRun' = IF "hold" \in rec THEN downRun + 1 ELSE downRun
  /\ UNCHANGED <<shared, pktBuf, pktPos, snap, reportCounter, f, interval, sample,
                 out, initialization_complete, position, sample_counter, halfBeat,
                 wire, hist, ticks>>

\* main.cpp 65-82: kBridgePattern.notes, one row of six LEDs per half-beat
kTop == <<1, 1, 0, 0, 0, 0>>
kMid == <<0, 0, 1, 1, 0, 0>>
kBot == <<0, 0, 0, 0, 1, 1>>
kAll == <<1, 1, 1, 1, 1, 1>>
kOff == <<0, 0, 0, 0, 0, 0>>
kBridgePattern ==
  <<kTop, kMid, kBot, kTop, kMid, kBot, kAll, kAll, kAll, kAll, kOff, kOff>>

\* ComputerCardExtensions.h 159-166: the LEDs of the note at pattern index n
NoteLeds(n) == [i \in 0..5 |-> IF kBridgePattern[n + 1][i + 1] = 1 THEN LED_ON ELSE 0]

\* the half-beat lasts one sample more
HalfBeatOverLate == sample_counter + 1 > halfBeat

\* ComputerCardExtensions.h 138-139: sample_counter++ reaches the half-beat
HalfBeatOver == sample_counter + 1 >= halfBeat

\* ComputerCardExtensions.h 205-216, 135-168: a sample before the startup
\* pattern is over, the switch not down: HandleBootSequence clears the hold
\* count, HandleStartupPattern counts the sample, moves to the next note
\* every half-beat, shows the note, and after the last one turns the LEDs
\* off and sets initialization_complete; ProcessSample returns either way
CardStartup ==
  /\ pc1 = "out0"
  /\ sample.sw # Down
  /\ ~initialization_complete
  /\ switchDownCount' = 0
  /\ sample_counter' = IF HalfBeatOver THEN 0 ELSE sample_counter + 1
  /\ position' = IF HalfBeatOver THEN position + 1 ELSE position
  /\ initialization_complete' = (HalfBeatOver /\ position' >= PATTERN_LENGTH)
  /\ led' = IF initialization_complete' THEN [i \in 0..5 |-> 0]
            ELSE IF position' < PATTERN_LENGTH THEN NoteLeds(position')
            ELSE led
  /\ calls' = IF "call" \in rec THEN calls + 1 ELSE calls
  /\ downRun' = 0
  /\ UNCHANGED <<shared, io, pc1, reportCounter, f, interval, sample, out,
                 halfBeat, wire, hist, downCalls, ticks>>

SmpOut(i) ==
  /\ pc1 = OutPc(i)
  /\ i = 0 => /\ CardRuns
              /\ "tick" \in rec => ticks < MaxTick
              /\ "call" \in rec => calls < MaxCall
  /\ switchDownCount' = IF i = 0 THEN 0 ELSE switchDownCount
  /\ calls' = IF i = 0 /\ "call" \in rec THEN calls + 1 ELSE calls
  /\ downRun' = IF i = 0 THEN 0 ELSE downRun
  /\ UNCHANGED <<initialization_complete, position, sample_counter, halfBeat,
                 downCalls, ticks>>
  /\ out' = [out EXCEPT ![OutName(i)] = target[i]]
  /\ outOf' = [outOf EXCEPT ![i] = targetOf[i]]
  /\ pc1' = OutPc(i + 1)
  /\ UNCHANGED <<shared, io, reportCounter, f, interval, sample, led, wire>>
  /\ UNCHANGED <<rec, rx, since, cmds, targetOf, pubSeq, inputOf, snapOf, nSent,
                 chkSeq, took>>

\* the pulse outputs written from the flags the previous tick read
SmpFlagsOfLastTick ==
  /\ pc1 = "outf"
  /\ f' = target_flags
  /\ out' = [out EXCEPT !["pulse1"] = Bit0(f), !["pulse2"] = Bit1(f)]
  /\ outOf' = [outOf EXCEPT ![4] = targetOf[4]]
  /\ pc1' = "led0"
  /\ UNCHANGED <<shared, io, reportCounter, interval, sample, led, wire>>
  /\ UNCHANGED <<rec, rx, since, cmds, targetOf, pubSeq, inputOf, snapOf, nSent,
                 chkSeq, took>>
  /\ UNCHANGED <<card, cardHist, ticks>>

\* lines 108-110: f = target_flags; PulseOut1(f & 0x01); PulseOut2((f & 0x02) != 0)
SmpFlags ==
  /\ pc1 = "outf"
  /\ f' = target_flags
  /\ out' = [out EXCEPT !["pulse1"] = Bit0(f'), !["pulse2"] = Bit1(f')]
  /\ outOf' = [outOf EXCEPT ![4] = targetOf[4]]
  /\ pc1' = "led0"
  /\ UNCHANGED <<shared, io, reportCounter, interval, sample, led, wire>>
  /\ UNCHANGED <<rec, rx, since, cmds, targetOf, pubSeq, inputOf, snapOf, nSent,
                 chkSeq, took>>
  /\ UNCHANGED <<card, cardHist, ticks>>

\* lines 114-119: v = target[i]; if (v < 0) v = -v; LedBrightness(i, (uint16_t)(v * 2))
Brightness(t) == ((IF t < 0 THEN -t ELSE t) * 2) % 65536

SmpLed(i) ==
  /\ pc1 = LedPc(i)
  /\ led' = [led EXCEPT ![i] = Brightness(target[i])]
  /\ pc1' = LedPc(i + 1)
  /\ UNCHANGED <<shared, io, reportCounter, f, interval, sample, out, wire, hist>>
  /\ UNCHANGED <<card, cardHist, ticks>>

\* lines 122-123: reportCounter++ stays below the interval: the tick is over
SmpSkip ==
  /\ pc1 = "count"
  /\ reportCounter + 1 < interval
  /\ reportCounter' = reportCounter + 1
  /\ pc1' = "out0"
  /\ UNCHANGED <<shared, io, f, interval, sample, out, led, wire, hist>>
  /\ ticks' = IF "tick" \in rec THEN ticks + 1 ELSE ticks
  /\ UNCHANGED <<card, cardHist>>

\* a publication that lets the counter run on instead of restarting it
SmpBeginKeepsCounting ==
  /\ pc1 = "count"
  /\ reportCounter + 1 >= interval
  /\ "pub" \in rec => pubSeq < MaxPub
  /\ reportCounter' = reportCounter + 1
  /\ pubSeq' = IF "pub" \in rec THEN pubSeq + 1 ELSE pubSeq
  /\ pc1' = "pcv0"
  /\ UNCHANGED <<shared, io, f, interval, sample, out, led, wire>>
  /\ UNCHANGED <<rec, rx, since, cmds, targetOf, outOf, inputOf, snapOf, nSent,
                 chkSeq, took>>
  /\ UNCHANGED <<card, cardHist, ticks>>

\* lines 122-124: the interval is reached: reportCounter = 0 and the inputs
\* latched for this sample are published
SmpBegin ==
  /\ pc1 = "count"
  /\ reportCounter + 1 >= interval
  /\ "pub" \in rec => pubSeq < MaxPub
  /\ reportCounter' = 0
  /\ pubSeq' = IF "pub" \in rec THEN pubSeq + 1 ELSE pubSeq
  /\ pc1' = "pcv0"
  /\ UNCHANGED <<shared, io, f, interval, sample, out, led, wire>>
  /\ UNCHANGED <<rec, rx, since, cmds, targetOf, outOf, inputOf, snapOf, nSent,
                 chkSeq, took>>
  /\ UNCHANGED <<card, cardHist, ticks>>

\* lines 126-134: the eight writes, in this order
PubOrder == <<"cv0", "cv1", "audio0", "audio1", "knob0", "knob1", "knob2", "flags">>
\* ready written before the flags byte
PubPcReadyEarly(k) == <<"pcv0", "pcv1", "paudio0", "paudio1", "pknob0", "pknob1",
                        "pknob2", "ready", "pflags">>[k]

PubPc(k) == <<"pcv0", "pcv1", "paudio0", "paudio1", "pknob0", "pknob1", "pknob2",
              "pflags", "ready">>[k]

\* what ProcessMainSample stores in field x from the latched inputs
SampleVal(s, x) ==
  CASE x = "cv0" -> s.cv[1]
    [] x = "cv1" -> s.cv[2]
    [] x = "audio0" -> s.audio[1]
    [] x = "audio1" -> s.audio[2]
    [] x = "knob0" -> I16(s.knobs[1])
    [] x = "knob1" -> I16(s.knobs[2])
    [] x = "knob2" -> I16(s.knobs[3])
    [] x = "flags" -> U8((IF s.pulse1 THEN 1 ELSE 0) + (IF s.pulse2 THEN 2 ELSE 0)
                         + U8(s.sw) * 4)

SmpPub(k) ==
  /\ pc1 = PubPc(k)
  /\ LET x == PubOrder[k]
         v == SampleVal(sample, x)
     IN  /\ input_cv' = IF x = "cv0" THEN [input_cv EXCEPT ![0] = v]
                        ELSE IF x = "cv1" THEN [input_cv EXCEPT ![1] = v]
                        ELSE input_cv
         /\ input_audio' = IF x = "audio0" THEN [input_audio EXCEPT ![0] = v]
                           ELSE IF x = "audio1" THEN [input_audio EXCEPT ![1] = v]
                           ELSE input_audio
         /\ input_knobs' = IF x = "knob0" THEN [input_knobs EXCEPT ![0] = v]
                           ELSE IF x = "knob1" THEN [input_knobs EXCEPT ![1] = v]
                           ELSE IF x = "knob2" THEN [input_knobs EXCEPT ![2] = v]
                           ELSE input_knobs
         /\ input_flags' = IF x = "flags" THEN v ELSE input_flags
         /\ inputOf' = [inputOf EXCEPT ![x] = pubSeq]
  /\ pc1' = PubPc(k + 1)
  /\ UNCHANGED <<target, target_flags, inputs_ready, io, reportCounter, f,
                 interval, sample, out, led, wire>>
  /\ UNCHANGED <<rec, rx, since, cmds, targetOf, outOf, pubSeq, snapOf, nSent,
                 chkSeq, took>>
  /\ UNCHANGED <<card, cardHist, ticks>>

\* a publication that waits until the I/O loop has taken the previous one
SmpReadyWaitsForConsumer ==
  /\ pc1 = "ready"
  /\ ~inputs_ready
  /\ inputs_ready' = TRUE
  /\ pc1' = "out0"
  /\ UNCHANGED <<target, target_flags, input_cv, input_audio, input_knobs,
                 input_flags, io, reportCounter, f, interval, sample, out, led,
                 wire, hist>>
  /\ ticks' = IF "tick" \in rec THEN ticks + 1 ELSE ticks
  /\ UNCHANGED <<card, cardHist>>

\* line 135: inputs_ready = true; the tick is over
SmpReady ==
  /\ pc1 = "ready"
  /\ inputs_ready' = TRUE
  /\ pc1' = "out0"
  /\ UNCHANGED <<target, target_flags, input_cv, input_audio, input_knobs,
                 input_flags, io, reportCounter, f, interval, sample, out, led,
                 wire, hist>>
  /\ ticks' = IF "tick" \in rec THEN ticks + 1 ELSE ticks
  /\ UNCHANGED <<card, cardHist>>

(***************************************************************************)
(* The hardware layer and the host                                         *)
(***************************************************************************)
\* the inputs change; only a tick that publishes reads them, so the change
\* is taken just before that tick reads them
HwLatch(s) ==
  /\ pc1 = "count"
  /\ reportCounter + 1 >= interval
  /\ s # sample
  /\ sample' = s
  /\ UNCHANGED <<shared, io, pc1, reportCounter, f, interval, out, led, wire, hist>>
  /\ UNCHANGED <<card, cardHist, ticks>>

\* SwitchVal() reads p from the first sample after the startup pattern on
SwitchSet(p) ==
  /\ pc1 = "out0"
  /\ reportCounter = 0 /\ input_flags = 0 /\ switchDownCount = 0
  /\ sample = SteadyScene
  /\ p # sample.sw
  /\ sample' = [sample EXCEPT !.sw = p]
  /\ UNCHANGED <<shared, io, pc1, reportCounter, f, interval, out, led, wire, hist>>
  /\ UNCHANGED <<card, cardHist, ticks>>

\* SwitchVal() reads p from this sample on, whatever it read before
SwitchFlip(p) ==
  /\ pc1 = "out0"
  /\ p # sample.sw
  /\ sample' = [sample EXCEPT !.sw = p]
  /\ UNCHANGED <<shared, io, pc1, reportCounter, f, interval, out, led, wire, hist>>
  /\ UNCHANGED <<card, cardHist, ticks>>

\* a sample of a hold that is let go within MaxHold samples
HeldBriefly ==
  /\ switchDownCount < MaxHold
  /\ downCalls < MaxHold
  /\ CardHeld

\* a free-running host puts one more byte on the wire
HostWrite(b) ==
  /\ inbound = <<>>
  /\ inbound' = <<b>>
  /\ UNCHANGED <<shared, io, smp, sent, hist>>
  /\ UNCHANGED <<card, cardHist, ticks>>

(***************************************************************************)
(* Specifications                                                          *)
(***************************************************************************)
IOInbound ==
  \/ IOTimeout
  \/ IOResync
  \/ IODiscard
  \/ IOStore
  \/ IOSetFlags
  \/ \E i \in 0..3 : IOSetTarget(i)

IOOutbound ==
  \/ IOCheck
  \/ IOClear
  \/ \E k \in 1..8 : IOTake(k)
  \/ IOSend

Sampler ==
  \/ \E i \in 0..3 : SmpOut(i)
  \/ SmpFlags
  \/ \E i \in 0..3 : SmpLed(i)
  \/ SmpSkip
  \/ SmpBegin
  \/ \E k \in 1..8 : SmpPub(k)
  \/ SmpReady

\* command frames of a recorded run: every field differs between the two
CmdSet == { CmdFrame(1, <<2047, -2048, 1, -1>>), CmdFrame(2, <<256, 8, -256, 0>>) }

RECURSIVE Flatten(_)
Flatten(ss) == IF ss = <<>> THEN <<>> ELSE Head(ss) \o Flatten(Tail(ss))

\* what the host sends in a recorded run: up to MaxCmd frames back to back,
\* or a frame after a stray byte, or a frame after a frame cut short
CmdStreams ==
  { Flatten(ss) : ss \in UNION { [1..n -> CmdSet] : n \in 0..MaxCmd } }
  \cup { <<17>> \o c : c \in CmdSet }
  \cup { SubSeq(c, 1, 4) \o c : c \in CmdSet }

\* Both cores run and the host sends up to MaxCmd command frames, whose
\* history is recorded.
Init ==
  /\ InitProgram
  /\ InitStarted
  /\ InitHistory
  /\ rec = {"cmd"}
  /\ interval = ShortInterval
  /\ inbound \in CmdStreams

Next == IOInbound \/ IOOutbound \/ Sampler

Spec == Init /\ [][Next]_vars

\* The host is silent and the inputs change: only the snapshot hand-off
\* between the cores is at work; its history is recorded and the sampler stops
\* after MaxPub publications.
InitSnap ==
  /\ InitProgram
  /\ InitStarted
  /\ InitHistory
  /\ rec = {"pub"}
  /\ interval = ShortInterval
  /\ inbound = <<>>

NextSnap ==
  \/ \E s \in Scenes : HwLatch(s)
  \/ IOTimeout
  \/ IOOutbound
  \/ Sampler

SpecSnap == InitSnap /\ [][NextSnap]_vars

\* The same, and the tests of inputs_ready are recorded as well.
InitChk ==
  /\ InitProgram
  /\ InitStarted
  /\ InitHistory
  /\ rec = {"pub", "chk"}
  /\ interval = ShortInterval
  /\ inbound = <<>>

SpecChk == InitChk /\ [][NextSnap]_vars

\* A finite byte stream is on the wire and the sampler is not running yet
\* (core 1 is still in its startup pattern): the decoder alone.  The stream is
\* one valid frame, or some bytes that leave the parser at any cursor 0..9
\* followed by a sync marker and nine more bytes.
FrameFlags == 0..3
FrameChans == {ChanMin, -1, 192, ChanMax}
ValidFrames == { CmdFrame(fl, c) : fl \in FrameFlags, c \in [1..4 -> FrameChans] }

Lead(n) == [i \in 1..n |-> IF i = 1 THEN SYNC_HOST_TO_DEVICE
                           ELSE IF i % 2 = 0 THEN 17 ELSE 34]
Leads == { Lead(n) : n \in 0..(OUTPUT_PACKET_SIZE - 1) } \cup { <<17>> }
Tails == [1..(OUTPUT_PACKET_SIZE - 1) -> {0, 34}]
ResyncStreams == { l \o <<SYNC_HOST_TO_DEVICE>> \o t : l \in Leads, t \in Tails }

\* a frame whose channel 1 is 0x0800, and a frame followed by a stray byte, a
\* packet cut short by a sync marker, and a timeout
ExampleStreams ==
  { <<SYNC_HOST_TO_DEVICE, 0, 0, 8, 0, 0, 0, 0, 0, 0>>,
    CmdFrame(1, <<2047, -2048, 1, -1>>) \o <<17, SYNC_HOST_TO_DEVICE, 34, SYNC_HOST_TO_DEVICE>> }

InitFrame ==
  /\ InitProgram
  /\ InitStarted
  /\ InitHistory
  /\ rec = {"cmd"}
  /\ interval = INPUT_REPORT_INTERVAL
  /\ inbound \in ValidFrames \cup ResyncStreams \cup ExampleStreams

NextFrame == IOInbound \/ IOCheck

SpecFrame == InitFrame /\ [][NextFrame]_vars

\* Both cores and a free-running host, without end and without history; each
\* core keeps running (the sampler on its sample clock, usb_loop in its loop).
InitLive ==
  /\ InitProgram
  /\ InitStarted
  /\ InitHistory
  /\ rec = {}
  /\ interval = ShortInterval
  /\ inbound = <<>>

NextLive ==
  \/ \E b \in HostBytes : HostWrite(b)
  \/ IOInbound
  \/ IOOutbound
  \/ Sampler

SpecLive ==
  /\ InitLive
  /\ [][NextLive]_vars
  /\ WF_vars(IOInbound \/ IOOutbound)
  /\ WF_vars(Sampler)

\* The same, with nothing assumed about usb_loop: only the sampler is
\* scheduled fairly (it runs on the sample clock of core 1).
SpecRT ==
  /\ InitLive
  /\ [][NextLive]_vars
  /\ WF_vars(Sampler)

\* The host is silent and the inputs hold one reading for the whole run: the
\* steady one, or one drawn from the native range that is present before the
\* first publication; the frames written are recorded.  For a
\* channel reading v the knobs read v + 2048 (0..4095), and the pulse inputs
\* and the switch follow the low bits of v.  The readings drawn are those
\* whose low byte is 0x00, 0x01, 0x55, 0x7F, 0x80, 0xAA or 0xFF, for every high byte.
CodecScene(v) ==
  [cv |-> <<v, -v - 1>>, audio |-> <<-v - 1, v>>,
   knobs |-> <<v - ChanMin, ChanMax - v, (v - ChanMin) \div 2>>,
   pulse1 |-> (v % 2 = 1), pulse2 |-> ((v \div 2) % 2 = 1), sw |-> 1 + ((v \div 4) % 2)]

CodecReadings == { v \in ChanMin..ChanMax : v % 256 \in {0, 1, 85, 127, 128, 170, 255} }
CodecScenes == { CodecScene(v) : v \in CodecReadings }

CodecLatch(s) == sample = SteadyScene /\ input_flags = 0 /\ HwLatch(s)

InitCodec ==
  /\ InitProgram
  /\ InitStarted
  /\ InitHistory
  /\ rec = {"tx"}
  /\ interval = ShortInterval
  /\ inbound = <<>>

NextCodec ==
  \/ \E s \in CodecScenes : CodecLatch(s)
  \/ IOTimeout
  \/ IOOutbound
  \/ Sampler

SpecCodec == InitCodec /\ [][NextCodec]_vars

\* The host is silent and the switch rests in one of its three positions from
\* the end of the startup pattern on; both cores keep running.
SwitchPositions == 0..2

NextSwitch ==
  \/ \E p \in SwitchPositions : SwitchSet(p)
  \/ CardHeld
  \/ IOTimeout
  \/ IOOutbound
  \/ Sampler

SpecSwitch ==
  /\ InitLive
  /\ [][NextSwitch]_vars
  /\ WF_vars(IOTimeout \/ IOOutbound)
  /\ WF_vars(Sampler \/ CardHeld)

\* Both cores run and the host sends one command frame whose flags byte has
\* bits set above bit 1, also after a stray byte and a lone sync marker; no
\* history is recorded.
ApplyStreams ==
  { CmdFrame(253, <<2047, -2048, 1, -1>>), CmdFrame(6, <<-1, 256, 8, 2047>>),
    <<17, SYNC_HOST_TO_DEVICE>> \o CmdFrame(253, <<2047, -2048, 1, -1>>) }

InitApply ==
  /\ InitProgram
  /\ InitStarted
  /\ InitHistory
  /\ rec = {}
  /\ interval = ShortInterval
  /\ inbound \in ApplyStreams

SpecApply == InitApply /\ [][Next]_vars

\* The host is silent and the sampler runs with the build's report interval;
\* its ticks and publications are counted, up to MaxTick ticks.
InitTick ==
  /\ InitProgram
  /\ InitStarted
  /\ InitHistory
  /\ rec = {"pub", "tick"}
  /\ interval = INPUT_REPORT_INTERVAL
  /\ inbound = <<>>

NextTick == IOTimeout \/ IOOutbound \/ Sampler

SpecTick == InitTick /\ [][NextTick]_vars

\* Core 1 alone after the startup pattern, the switch moving freely between
\* samples; the hold is counted up to the real BOOT_HOLD_SAMPLES and the run
\* of Down readings is recorded.
InitHold ==
  /\ InitProgram
  /\ InitStarted
  /\ InitHistory
  /\ rec = {"hold"}
  /\ interval = ShortInterval
  /\ inbound = <<>>

NextHold ==
  \/ \E p \in SwitchPositions : SwitchFlip(p)
  \/ CardHeld
  \/ Sampler

SpecHold == InitHold /\ [][NextHold]_vars

\* Both cores from power-on, the switch moving freely between samples and
\* let go within MaxHold samples, the host sending one command frame; the
\* half-beat of the startup pattern is shortened to ShortHalfBeat samples and
\* no history is recorded.
InitStart ==
  /\ InitProgram
  /\ InitPowerOn
  /\ halfBeat = ShortHalfBeat
  /\ InitHistory
  /\ rec = {}
  /\ interval = ShortInterval
  /\ inbound \in ApplyStreams

NextStart ==
  \/ \E p \in SwitchPositions : SwitchFlip(p)
  \/ HeldBriefly
  \/ CardStartup
  \/ Sampler
  \/ IOInbound
  \/ IOOutbound

SpecStart == InitStart /\ [][NextStart]_vars

\* Core 1 alone from power-on with the real half-beat of the startup pattern;
\* the calls of ProcessSample are counted up to MaxCall, and the switch reads
\* Down on at most MaxHold of them.
InitBoot ==
  /\ InitProgram
  /\ InitPowerOn
  /\ halfBeat = SAMPLES_PER_HALF_BEAT
  /\ InitHistory
  /\ rec = {"call"}
  /\ interval = ShortInterval
  /\ inbound = <<>>

NextBoot ==
  \/ \E p \in SwitchPositions : SwitchFlip(p)
  \/ HeldBriefly
  \/ CardStartup
  \/ Sampler

SpecBoot == InitBoot /\ [][NextBoot]_vars

\* The snapshot hand-off with its history, the host silent, and usb_loop kept
\* running in its loop; nothing is assumed about how far the sampler gets.
SpecFinal ==
  /\ InitSnap
  /\ [][NextSnap]_vars
  /\ WF_vars(IOTimeout \/ IOOutbound)

\* Both cores, the host sending a command frame, and the telemetry frame
\* written to the transport one byte per step; the bytes of the frame in
\* progress are recorded.
InitWire ==
  /\ InitProgram
  /\ InitStarted
  /\ InitHistory
  /\ rec = {"tx"}
  /\ interval = ShortInterval
  /\ inbound \in ApplyStreams

NextWire ==
  \/ IOInbound
  \/ IOCheck
  \/ IOClear
  \/ \E k \in 1..8 : IOTake(k)
  \/ \E i \in 0..(INPUT_PACKET_SIZE - 1) : IOPut(i)
  \/ Sampler

SpecWire == InitWire /\ [][NextWire]_vars

(***************************************************************************)
(* Claims                                                                  *)
(***************************************************************************)
\* usb_loop reads a byte in this step
ReadsByte == pc0 = "read" /\ inbound # <<>> /\ inbound' = Tail(inbound)

\* usb_loop is writing the targets of a completed frame
SettingTargets == pc0 \in {"tflags", "t0", "t1", "t2", "t3"}

\* channel i (0..3) of a command frame, as the wire format defines it
FrameChan(fr, i) ==
  LET u == fr[2 * i + 3] + 256 * fr[2 * i + 4]
  IN  IF u >= 32768 THEN u - 65536 ELSE u

\* a frame as the claim C1 describes it
IsValidFrame(fr) ==
  /\ Len(fr) = OUTPUT_PACKET_SIZE
  /\ fr[1] = SYNC_HOST_TO_DEVICE
  /\ fr[2] \in 0..3
  /\ \A i \in 0..3 : FrameChan(fr, i) \in ChanMin..ChanMax

\* C1: once the 10 bytes of a valid frame (sync, flags in bits 0-1, four
\* channel values in -2048..2047) have been fed to the empty parser, in any
\* chunking, exactly one frame has completed and the targets equal the
\* frame's flags and channel values.
C1_ValidFrameDecodes ==
  (IsValidFrame(rx) /\ ~SettingTargets)
    => /\ Len(cmds) = 1
       /\ target_flags = rx[2]
       /\ \A i \in 0..3 : target[i] = FrameChan(rx, i)

\* C2: every telemetry frame that is transmitted carries eight fields of one
\* single publication.
C2_OnePublicationPerFrame ==
  pc0 = "send" => \A x, y \in Fields : snapOf[x] = snapOf[y]

\* C3: a sync marker read at any cursor leaves cursor 1 and buffer[0] = 0xC0,
\* completes no frame and leads to no target write; a frame completes exactly
\* when the sync marker and nine bytes without a sync marker have been read
\* since, and it consists of exactly those 10 bytes.
C3_Resync ==
  [][ReadsByte =>
       /\ Head(inbound) = SYNC_HOST_TO_DEVICE
            => /\ pktPos' = 1
               /\ pktBuf'[0] = SYNC_HOST_TO_DEVICE
               /\ pc0' \in {"read", "chk"}
               /\ cmds' = cmds
       /\ (pc0' = "tflags") = (Len(since') = OUTPUT_PACKET_SIZE)
       /\ (cmds' # cmds) = (pc0' = "tflags")
       /\ pc0' = "tflags"
            => /\ cmds' = Append(cmds, since')
               /\ since' = [i \in 1..OUTPUT_PACKET_SIZE |-> rx'[Len(rx') - OUTPUT_PACKET_SIZE + i]]
               /\ since' = [i \in 1..OUTPUT_PACKET_SIZE |-> pktBuf'[i - 1]]
     ]_vars

\* the spec's example: 0xC0 0x11 0xC0 0x22 and eight zeros: the frame
\* completed is the ten bytes from index 2
C3_Witness ==
  /\ rx = <<192, 17, 192, 34, 0, 0, 0, 0, 0, 0, 0, 0>>
  /\ cmds = << <<192, 34, 0, 0, 0, 0, 0, 0, 0, 0>> >>
  /\ pc0 = "chk"

\* C4: in every iteration the outbound step follows the inbound step: an
\* iteration that reads a byte while ready is true goes on to take and send
\* the snapshot instead of starting the next read.
C4_OutboundEveryIteration ==
  [][(ReadsByte /\ inputs_ready) => pc0' # "read"]_vars

\* C5: with both contexts running and the sampler publishing again and again,
\* telemetry frames are transmitted again and again, whatever the host sends.
C5_TelemetryKeepsFlowing == []<>(pc0 = "send")

\* C6: when two publications were made in full between two tests of ready,
\* the frame then transmitted carries exactly the second one's eight fields.
C6_LatestWins ==
  (pc0 = "send" /\ took.whole >= 2) => \A x \in Fields : snapOf[x] = took.ready

\* C7: the frames transmitted never outnumber the publications whose
\* ready = true write has happened.
C7_AtMostOncePerPublication == nSent <= NReady

C7_Witness == nSent = 2 /\ NReady = 2 /\ pc0 = "read"

\* C8 as written: ready is never cleared before the eight fields have been read.
C8_ClearAfterReads ==
  [][(inputs_ready /\ ~inputs_ready') => DOMAIN snap = Fields]_vars

\* C8 as amended: ready found true is cleared at once, before any of the
\* eight fields is read; the eight reads follow the clearing.
C8_ClearBeforeReads ==
  [][/\ (pc0 = "chk" /\ pc0' # pc0 /\ inputs_ready) => pc0' = "clear"
     /\ (pc0 = "clear" /\ pc0' # pc0)
          => /\ ~inputs_ready'
             /\ pc0' = "rflags"
             /\ DOMAIN snap' = {}
     /\ \A x \in Fields :
          (x \notin DOMAIN snap /\ x \in DOMAIN snap') => pc0 \notin {"chk", "clear"}
    ]_vars

C8_Witness ==
  pc0 = "rcv0" /\ ~inputs_ready /\ DOMAIN snap = {"flags"}

\* C9: within a publication ready = true is the last write: when the sampler
\* writes it, all eight fields hold this publication's values, and no other
\* step of the sampler writes ready.
C9_ReadyLast ==
  [][/\ (pc1 = "ready" /\ pc1' # pc1)
          => /\ inputs_ready'
             /\ \A x \in Fields : inputOf[x] = pubSeq /\ InputVal(x) = SampleVal(sample, x)
     /\ (pc1 # "ready" /\ pc1' # pc1) => inputs_ready' = inputs_ready
    ]_vars

C9_Witness ==
  /\ pc1 = "out0" /\ inputs_ready /\ pubSeq = 2
  /\ \A x \in Fields : inputOf[x] = 2

\* C10: what the sampler has applied to each output is the initial zero or
\* that field of a completely received command frame, and per field the
\* frame never goes backwards.
FrameField(fr, i) == IF i = 4 THEN fr[2] ELSE FrameChan(fr, i)
AppliedField(i) == IF i = 4 THEN out["pulse1"] + 2 * out["pulse2"] ELSE out[OutName(i)]

C10_TargetsPerField ==
  /\ [](\A i \in TargetFields :
          /\ outOf[i] \in 0..Len(cmds)
          /\ AppliedField(i) = IF outOf[i] = 0 THEN 0
                               ELSE IF i = 4 THEN FrameField(cmds[outOf[i]], i) % 4
                               ELSE FrameField(cmds[outOf[i]], i))
  /\ [][\A i \in TargetFields : outOf'[i] >= outOf[i]]_vars

\* a tick has applied channel 1 of the second frame and still the flags of
\* the first
C10_Witness == Len(cmds) = 2 /\ outOf[0] = 2 /\ outOf[4] = 1 /\ out["audio1"] # 0

\* C11: the six target fields are written only while usb_loop copies a
\* completed packet, which it enters only by reading the byte that brings the
\* cursor to 10; a timeout leaves cursor and buffer as they are; a discarded
\* byte or a restart changes nothing but cursor and buffer (no error state).
C11_TargetsOnlyOnCompleteFrame ==
  [][/\ (target' # target \/ target_flags' # target_flags) => SettingTargets
     /\ (~SettingTargets /\ SettingTargets')
          => ReadsByte /\ pktPos = OUTPUT_PACKET_SIZE - 1 /\ pc0' = "tflags"
     /\ (pc0 = "read" /\ pc0' # pc0 /\ inbound' = inbound)
          => pktPos' = pktPos /\ pktBuf' = pktBuf /\ shared' = shared
     /\ (ReadsByte /\ pc0' # "tflags")
          => /\ shared' = shared /\ snap' = snap /\ sent' = sent
             /\ smp' = smp /\ card' = card
             /\ pc0' \in {"read", "chk"}
    ]_vars

\* after a complete frame a stray byte was discarded and a packet in progress
\* was restarted: the targets are still those of the frame
C11_Witness ==
  /\ Len(rx) = 14 /\ Len(cmds) = 1 /\ pktPos = 1 /\ pc0 = "read"
  /\ target = [i \in 0..3 |-> <<2047, -2048, 1, -1>>[i + 1]]
  /\ target_flags = 1

\* C12: after N ticks exactly N div 48 publications have been made, a
\* publication is made on a tick only if that tick is a multiple of 48, and
\* between ticks reportCounter is N mod 48, within 0..47.
C12_Decimation ==
  /\ reportCounter \in 0..(INPUT_REPORT_INTERVAL - 1)
  /\ NReady = ticks \div INPUT_REPORT_INTERVAL
  /\ pc1 = "out0" => /\ reportCounter = ticks % INPUT_REPORT_INTERVAL
                     /\ pubSeq = ticks \div INPUT_REPORT_INTERVAL
  /\ pc1 \in {"pcv0", "pcv1", "paudio0", "paudio1", "pknob0", "pknob1", "pknob2",
               "pflags", "ready"}
       => (ticks + 1) % INPUT_REPORT_INTERVAL = 0

\* 96 ticks have run and the second publication has just been made
C12_Witness ==
  ticks = 2 * INPUT_REPORT_INTERVAL /\ pubSeq = 2 /\ pc1 = "out0" /\ inputs_ready

\* C13: in every reachable state, whatever usb_loop and the host are doing,
\* the sampler has a step it can take, and with the sampler alone scheduled
\* fairly every tick returns and publications are made again and again.
C13_SamplerNeverStalls ==
  /\ [](ENABLED Sampler)
  /\ []<>(pc1 = "out0")
  /\ []<>(pc1 = "ready")

\* the sampler is about to publish while usb_loop is in the middle of copying
\* a packet to the targets and the previous snapshot has not been taken
C13_Witness ==
  pc1 = "ready" /\ pc0 = "t2" /\ inputs_ready /\ inbound # <<>>

\* C14: when the copy of a completed packet ends, target_flags is byte 1 of
\* the packet, channel i is the signed 16-bit value with low byte 2i and high
\* byte 2i+1 (i = 1..4), and the cursor is 0.
C14_SetTargetsDecodes ==
  [][(pc0 = "t3" /\ pc0' # pc0)
       => /\ pc0' = "chk"
          /\ pktPos' = 0
          /\ cmds # <<>>
          /\ target_flags' = cmds[Len(cmds)][2]
          /\ \A i \in 0..3 : target'[i] = FrameChan(cmds[Len(cmds)], i)
    ]_vars

\* the bytes C0 00 00 08 00 00 00 00 00 00 have given flags 0 and (2048,0,0,0)
C14_Witness ==
  /\ rx = <<192, 0, 0, 8, 0, 0, 0, 0, 0, 0>>
  /\ pc0 = "chk" /\ pktPos = 0
  /\ target_flags = 0
  /\ target = [i \in 0..3 |-> IF i = 0 THEN 2048 ELSE 0]

\* C15: every target channel is within the native range -2048..+2047 in
\* every reachable state, for any inbound byte stream.
C15_TargetsInNativeRange ==
  \A i \in 0..3 : target[i] \in ChanMin..ChanMax

\* the seven readings in the order of the outbound layout
WireOrder == <<"cv0", "cv1", "audio0", "audio1", "knob0", "knob1", "knob2">>

\* the 16-bit two's-complement pattern of a reading
TwosComplement16(v) == IF v < 0 THEN v + 65536 ELSE v

\* C16: the frame written is 16 bytes: 0xC1, the flags, then each of the seven
\* readings as low byte and high byte in the order CV1, CV2, audio1, audio2,
\* knob Main, X, Y; it is a function of the snapshot taken alone.
C16_EncodeLayout ==
  [][(pc0 = "send" /\ pc0' # pc0)
       => /\ Len(sent') = INPUT_PACKET_SIZE
          /\ sent'[1] = 193
          /\ sent'[2] = snap["flags"]
          /\ \A k \in 1..7 :
               /\ sent'[2 * k + 1] = TwosComplement16(snap[WireOrder[k]]) % 256
               /\ sent'[2 * k + 2] = TwosComplement16(snap[WireOrder[k]]) \div 256
    ]_vars

\* CV (100,-50), audio (0,0), knobs (4095,0,2048), flags 0x06 have been sent as
\* C1 06 64 00 CE FF 00 00 00 00 FF 0F 00 00 00 08
C16_Witness ==
  /\ sample.cv = <<100, -50>> /\ sample.audio = <<0, 0>>
  /\ sample.knobs = <<4095, 0, 2048>>
  /\ sent = <<193, 6, 100, 0, 206, 255, 0, 0, 0, 0, 255, 15, 0, 0, 0, 8>>

\* the readings of the hardware inputs, as the firmware's header names them
Reading(x) ==
  CASE x = "cv0" -> sample.cv[1]
    [] x = "cv1" -> sample.cv[2]
    [] x = "audio0" -> sample.audio[1]
    [] x = "audio1" -> sample.audio[2]
    [] x = "knob0" -> sample.knobs[1]
    [] x = "knob1" -> sample.knobs[2]
    [] x = "knob2" -> sample.knobs[3]

\* C17: decoding each field of a written frame with the inbound rule
\* (int16 of low byte | high byte << 8), and the flags from byte 1, gives back
\* the eight fields of the snapshot, which are the readings published.
C17_RoundTrip ==
  [][(pc0 = "send" /\ pc0' # pc0)
       => /\ sent'[2] = snap["flags"]
          /\ \A k \in 1..7 :
               /\ ReadI16(sent'[2 * k + 1], sent'[2 * k + 2]) = snap[WireOrder[k]]
               /\ snap[WireOrder[k]] = Reading(WireOrder[k])
    ]_vars

\* frames for the two ends of the ranges have been written: CV1 = -2048 with
\* knob Main = 0, and CV1 = 2047 with knob Main = 4095
C17_Witness ==
  /\ sent # <<>> /\ pc0 = "read"
  /\ sample.cv[1] = ChanMin /\ sample.knobs[1] = 0
  /\ ReadI16(sent[3], sent[4]) = ChanMin /\ ReadI16(sent[5], sent[6]) = ChanMax

\* usb_loop is about to write a frame whose flags byte has bits 2-3 = p, the
\* pulse inputs in bits 0 and 1, and bits 4-7 zero
SendsPosition(p) ==
  /\ pc0 = "send"
  /\ snap["flags"] = 4 * p + (IF sample.pulse1 THEN 1 ELSE 0)
                            + (IF sample.pulse2 THEN 2 ELSE 0)

\* C18: for each switch position p (0 = down, 1 = middle, 2 = up), while the
\* switch stays at p after startup, frames whose flags carry p in bits 2-3
\* are published and transmitted again and again.
C18_AllPositionsReported ==
  \A p \in SwitchPositions : <>[](sample.sw = p) => []<>SendsPosition(p)

\* C19: a tick writes target[0] to Audio Out 1, target[1] to Audio Out 2,
\* target[2] to CV Out 1 and target[3] to CV Out 2, unscaled, then bit 0 of
\* the flags to Pulse Out 1 and bit 1 to Pulse Out 2; no other step and no
\* other bit of the flags changes an output.
C19_FixedOutputMapping ==
  [][/\ (pc1 = "out0" /\ pc1' # pc1)
          => pc1' = "out1" /\ out' = [out EXCEPT !["audio1"] = target[0]]
     /\ (pc1 = "out1" /\ pc1' # pc1)
          => pc1' = "out2" /\ out' = [out EXCEPT !["audio2"] = target[1]]
     /\ (pc1 = "out2" /\ pc1' # pc1)
          => pc1' = "out3" /\ out' = [out EXCEPT !["cv1"] = target[2]]
     /\ (pc1 = "out3" /\ pc1' # pc1)
          => pc1' = "outf" /\ out' = [out EXCEPT !["cv2"] = target[3]]
     /\ (pc1 = "outf" /\ pc1' # pc1)
          => out' = [out EXCEPT !["pulse1"] = target_flags % 2,
                                !["pulse2"] = (target_flags \div 2) % 2]
     /\ (pc1 \notin {"out0", "out1", "out2", "out3", "outf"} \/ pc1' = pc1)
          => out' = out
    ]_vars

\* a tick has applied the frame with flags 0xFD: the four channels are on
\* their outputs, Pulse Out 1 is high and Pulse Out 2 is low
C19_Witness ==
  /\ pc1 = "led0" /\ target_flags = 253
  /\ out = [audio1 |-> 2047, audio2 |-> -2048, cv1 |-> 1, cv2 |-> -1,
            pulse1 |-> 1, pulse2 |-> 0]

\* usb_loop is in the send part of an iteration
Outbound == pc0 \in {"chk", "clear", "rflags", "rcv0", "rcv1", "raudio0", "raudio1",
                     "rknob0", "rknob1", "rknob2", "send"}

\* C20: in an iteration whose byte completes a frame, all six target fields
\* have been written from that frame before the send part begins, hence
\* before the first byte of a telemetry frame is written; the copy is not left
\* for the send part before its last write.
C20_InboundBeforeOutbound ==
  /\ [](Outbound => \A i \in TargetFields :
                       /\ targetOf[i] = Len(cmds)
                       /\ cmds # <<>> =>
                            (IF i = 4 THEN target_flags ELSE target[i])
                              = FrameField(cmds[Len(cmds)], i))
  /\ [][(SettingTargets /\ Outbound') => pc0 = "t3" /\ pc0' = "chk"]_vars

\* the byte that completed the frame was read in this iteration, the six
\* fields are written and the telemetry frame is about to be written
C20_Witness ==
  /\ pc0 = "send" /\ Len(rx) = OUTPUT_PACKET_SIZE /\ Len(cmds) = 1
  /\ \A i \in TargetFields : targetOf[i] = 1
  /\ target[0] # 0

\* C21: switchDownCount is the number of the latest ProcessSample calls in a
\* row on which the switch read Down, and the card aborts into the USB
\* bootloader on exactly the call that makes that number BOOT_HOLD_SAMPLES
C21_HoldToReprogram ==
  /\ [](switchDownCount = downRun)
  /\ [](pc1 = "boot" => downRun = BOOT_HOLD_SAMPLES)
  /\ [][/\ (pc1 # "boot" /\ pc1' = "boot") => downRun' = BOOT_HOLD_SAMPLES
        /\ (downRun' = BOOT_HOLD_SAMPLES /\ downRun' # downRun) => pc1' = "boot"]_vars

\* the card has aborted after a hold that was interrupted before
C21_Witness == pc1 = "boot" /\ downRun = BOOT_HOLD_SAMPLES /\ reportCounter = 1

\* C22: ProcessMainSample runs on a call only if the startup pattern was over
\* before the call and the switch does not read Down on it; a call before
\* that, or with the switch down, writes no output from the targets, leaves
\* the decimation counter and publishes nothing
C22_MainSampleGated ==
  /\ [](pc1 \notin {"out0", "boot"} => initialization_complete /\ sample.sw # Down)
  /\ [][(pc1 = "out0" /\ (~initialization_complete \/ sample.sw = Down))
          => /\ pc1' = "out0"
             /\ UNCHANGED <<out, reportCounter, input_cv, input_audio, input_knobs,
                            input_flags>>
             /\ inputs_ready' => inputs_ready]_vars

\* the pattern is running, the switch was read Down on the last call, and the
\* outputs do not show the targets a frame has set
C22_Witness ==
  /\ ~initialization_complete
  /\ position > 0
  /\ switchDownCount > 0
  /\ target[0] = 2047
  /\ out["audio1"] = 0

\* C23: counting only the calls on which the switch does not read Down, the
\* startup pattern is over on exactly call 144000 (12 half-beats of 12000
\* samples) and ProcessMainSample first runs on call 144001; the pattern
\* index is in 0..11 while notes are shown; a call with the switch down
\* leaves the sample counter and the pattern position
C23_StartupLength ==
  /\ [](~initialization_complete =>
          /\ position \in 0..11
          /\ sample_counter \in 0..11999
          /\ calls - downCalls = 12000 * position + sample_counter)
  /\ [][/\ (~initialization_complete /\ initialization_complete')
            => calls' - downCalls' = 144000
        /\ (pc1 = "out0" /\ pc1' = "out1") => calls' - downCalls' >= 144001
        /\ downCalls' # downCalls => UNCHANGED <<sample_counter, position>>]_vars

\* the switch never read Down and ProcessMainSample runs for the first time
C23_Witness ==
  /\ pc1 = "out1"
  /\ calls = 144001
  /\ downCalls = 0
  /\ initialization_complete

\* usb_loop is about to transmit a frame whose eight fields are those of
\* publication n
SendsPublication(n) == pc0 = "send" /\ \A x \in Fields : snapOf[x] = n

\* C24: when publication n has been completed and none is started after it,
\* a frame with exactly the eight fields of n is transmitted, whatever
\* usb_loop was doing when n was published
C24_NoLostFinalUpdate ==
  \A n \in 1..MaxPub :
    <>[](pubSeq = n /\ NReady = n) => <>SendsPublication(n)

\* the last publication was completed while usb_loop, which had cleared ready
\* for an earlier one, was reading the fields: its frame is a mix, and ready
\* is set again
C24_Witness ==
  /\ pc0 = "send"
  /\ inputs_ready
  /\ pubSeq = MaxPub /\ NReady = MaxPub
  /\ \E x \in Fields : snapOf[x] # MaxPub
  /\ \E x \in Fields : snapOf[x] = MaxPub

\* usb_loop has written all six targets from the last completed frame
Settled ==
  /\ cmds # <<>>
  /\ ~SettingTargets
  /\ \A i \in TargetFields : targetOf[i] = Len(cmds)

\* C25: once usb_loop has written all six fields of the last completed frame,
\* every output the sampler writes until another frame completes is that
\* frame's channel value, or its flag bits 0 and 1, and is recorded as coming
\* from that frame
C25_TargetsConverge ==
  [][Settled =>
       /\ \A i \in 0..3 :
            (pc1 = OutPc(i) /\ pc1' # pc1)
              => /\ out'[OutName(i)] = FrameChan(cmds[Len(cmds)], i)
                 /\ outOf'[i] = Len(cmds)
       /\ (pc1 = "outf" /\ pc1' # pc1)
            => /\ out'["pulse1"] = cmds[Len(cmds)][2] % 2
               /\ out'["pulse2"] = (cmds[Len(cmds)][2] \div 2) % 2
               /\ outOf'[4] = Len(cmds)]_vars

\* both frames have arrived and a tick has applied the six fields of the
\* second one, after an earlier tick had applied fields of the first
C25_Witness ==
  /\ Settled /\ Len(cmds) = 2 /\ inbound = <<>>
  /\ pc1 = "led0"
  /\ \A i \in TargetFields :
       outOf[i] = 2 /\ AppliedField(i) = FrameField(cmds[2], i)
  /\ led[0] = Brightness(FrameChan(cmds[1], 0))
  /\ led[0] # Brightness(FrameChan(cmds[2], 0))

\* C26: every frame the decoder completes begins with 0xC0 and has no 0xC0
\* among its other nine bytes; target_flags is never 0xC0 and neither byte of
\* a target channel is 0xC0
C26_NoSyncByteInPayload ==
  /\ \A k \in 1..Len(cmds) :
       /\ cmds[k][1] = 192
       /\ \A j \in 2..10 : cmds[k][j] # 192
  /\ target_flags # 192
  /\ \A i \in 0..3 : LoByte(target[i]) # 192 /\ HiByte(target[i]) # 192

\* a packet of nine bytes was cut short by a sync marker and the ten bytes
\* from that marker on have been completed and copied to the targets
C26_Witness ==
  /\ Len(rx) = 19 /\ rx[1] = 192 /\ rx[10] = 192
  /\ Len(cmds) = 1 /\ cmds[1][2] = 34
  /\ target_flags = 34 /\ target[3] = 8704
  /\ pc0 = "chk" /\ pktPos = 0

\* C27: where an iteration of usb_loop starts, the cursor is in 0..9 and a
\* cursor above 0 has the sync byte in pktBuf[0]; a byte is stored at the
\* cursor only with the cursor in 0..9, and the cursor is 10 only during the
\* copy to the targets
C27_ParserInvariant ==
  /\ [](pc0 = "read" => /\ pktPos \in 0..(OUTPUT_PACKET_SIZE - 1)
                        /\ pktPos > 0 => pktBuf[0] = 192)
  /\ [](pktPos \in 0..OUTPUT_PACKET_SIZE)
  /\ [](pktPos = OUTPUT_PACKET_SIZE => SettingTargets)
  /\ [][pktBuf' # pktBuf
         => /\ ReadsByte
            /\ \/ pktPos' = 1 /\ pktBuf' = [pktBuf EXCEPT ![0] = 192]
               \/ /\ pktPos \in 0..9 /\ pktPos' = pktPos + 1
                  /\ pktBuf' = [pktBuf EXCEPT ![pktPos] = U8(Head(inbound))]]_vars

\* after a completed frame the next packet is one byte short of complete
C27_Witness ==
  /\ pc0 = "read" /\ pktPos = 9
  /\ pktBuf[0] = 192 /\ pktBuf[8] = 17
  /\ target_flags = 17 /\ target[3] = 4369

\* usb_loop is inside the loop that writes the frame
Putting == pc0 \in {"put1", "put2", "put3", "put4", "put5", "put6", "put7", "put8",
                    "put9", "put10", "put11", "put12", "put13", "put14", "put15"}

\* C28: outside the write loop, hence where an iteration of usb_loop starts,
\* the bytes written since the last frame was begun are none or one whole
\* frame of 16 bytes beginning with 0xC1; a byte is written only by the write
\* loop, appended to the frame in progress, and a frame is begun, with 0xC1,
\* only when the one before it is whole
C28_WholeFramesOnly ==
  /\ [](~Putting => /\ Len(sent) \in {0, INPUT_PACKET_SIZE}
                    /\ sent # <<>> => sent[1] = 193)
  /\ [](Putting => Len(sent) \in 1..(INPUT_PACKET_SIZE - 1) /\ sent[1] = 193)
  /\ [][sent' # sent
         => /\ pc0 = "send" \/ Putting
            /\ pc0 = "send" => /\ Len(sent) \in {0, INPUT_PACKET_SIZE}
                               /\ sent' = <<193>>
            /\ Putting => /\ Len(sent') = Len(sent) + 1
                          /\ SubSeq(sent', 1, Len(sent)) = sent
            /\ UNCHANGED <<pktBuf, pktPos, target, target_flags, inbound>>]_vars

\* a second frame has been written whole while the host's command frame is
\* still arriving
C28_Witness ==
  /\ pc0 = "read" /\ Len(sent) = INPUT_PACKET_SIZE /\ sent[1] = 193
  /\ sent[2] # 0
  /\ pktPos = 5

\* C29: a tick that sets an activity LED from a target channel in the native
\* range -2048..+2047 sets a brightness within 0..4095
C29_BrightnessInLedRange ==
  [][\A i \in 0..3 :
       (pc1 = LedPc(i) /\ pc1' # pc1 /\ target[i] \in ChanMin..ChanMax)
         => led'[i] \in 0..4095]_vars

====
